---- MODULE Spec2Model ----
(***************************************************************************)
(* The VirtIO MMIO transport of src/transport/mmio.rs: the register block  *)
(* (VirtIOHeader), the constructor MmioTransport::new and the Transport    *)
(* operations, each as the sequence of volatile register accesses it       *)
(* performs on the register block.                                         *)
(*                                                                         *)
(* Numbers wider than TLC's integers are kept as little-endian sequences   *)
(* of 16-bit limbs: a u32 is two limbs, a u64 (usize, PhysAddr) is four.   *)
(***************************************************************************)
EXTENDS Integers, Sequences, FiniteSets, TLC

VARIABLES hdr, tr, log, ret, prev, lastStatus, steps, verAtNew, queuesSet, queuesZero, lastQueue

vars == <<hdr, tr, log, ret, prev, lastStatus, steps, verAtNew, queuesSet, queuesZero, lastQueue>>

----------------------------------------------------------------------------
(* Fixed-width arithmetic on limb sequences.                               *)

Base == 2^16

Zero32 == <<0, 0>>

Zero64 == <<0, 0, 0, 0>>

\* The u32 with high half hi and low half lo (each below 2^16).
W32(hi, lo) == <<lo, hi>>

\* The u64 with the given four 16-bit quarters, most significant first.
W64(a, b, c, d) == <<d, c, b, a>>

\* A small natural (below 2^31) as a u32.
U32(n) == <<n % Base, (n \div Base) % Base>>

\* A small natural (below 2^31) as a u64.
U64(n) == <<n % Base, (n \div Base) % Base, 0, 0>>

\* `x as u64` / `.into()` for a u32 x: zero extension.
Widen(x) == x \o <<0, 0>>

\* `x as u32` for a u64 x: truncation to the low 32 bits.
TruncU32(x) == SubSeq(x, 1, 2)

\* `x >> 32` for a u64 x.
Shr32(x) == SubSeq(x, 3, 4) \o <<0, 0>>

\* `x << 32` for a u64 x: the bits shifted out are lost.
Shl32(x) == <<0, 0>> \o SubSeq(x, 1, 2)

\* The carry out of limb i (0 before the first limb) when adding a and b.
RECURSIVE CarryAt(_, _, _)
CarryAt(a, b, i) ==
    IF i = 0 THEN 0 ELSE (a[i] + b[i] + CarryAt(a, b, i - 1)) \div Base

\* a + b on n-limb numbers, modulo 2^(16 n).
AddW(a, b) ==
    [i \in 1..Len(a) |-> (a[i] + b[i] + CarryAt(a, b, i - 1)) % Base]

\* Whether a + b overflows the width.
AddOverflows(a, b) == CarryAt(a, b, Len(a)) = 1

\* The borrow out of limb i when subtracting b from a.
RECURSIVE BorrowAt(_, _, _)
BorrowAt(a, b, i) ==
    IF i = 0 THEN 0
    ELSE IF a[i] - b[i] - BorrowAt(a, b, i - 1) < 0 THEN 1 ELSE 0

\* a - b on n-limb numbers, modulo 2^(16 n).
SubW(a, b) ==
    [i \in 1..Len(a) |-> (a[i] - b[i] - BorrowAt(a, b, i - 1) + Base) % Base]

\* Whether a - b underflows (a < b).
SubUnderflows(a, b) == BorrowAt(a, b, Len(a)) = 1

\* The remainder carried into limb i (from the limbs above it) when dividing
\* x by the small divisor d (d <= 2^12).
RECURSIVE RemAbove(_, _, _)
RemAbove(x, d, i) ==
    IF i >= Len(x) THEN 0
    ELSE (RemAbove(x, d, i + 1) * Base + x[i + 1]) % d

\* x / d (integer division) for a small divisor d.
DivSmall(x, d) ==
    [i \in 1..Len(x) |-> (RemAbove(x, d, i) * Base + x[i]) \div d]

\* The carry into limb i + 1 when multiplying x by the small factor f.
RECURSIVE MulCarry(_, _, _)
MulCarry(x, f, i) ==
    IF i = 0 THEN 0 ELSE (x[i] * f + MulCarry(x, f, i - 1)) \div Base

\* x * f modulo the width, for a small factor f (f <= 2^12).
MulSmall(x, f) ==
    [i \in 1..Len(x) |-> (x[i] * f + MulCarry(x, f, i - 1)) % Base]

\* Whether a limb sequence is the number zero.
IsZero(x) == \A i \in 1..Len(x) : x[i] = 0

----------------------------------------------------------------------------
(* Constants of the transport.                                             *)

\* 0x7472_6976
MAGIC_VALUE == W32(29810, 26998)

LEGACY_VERSION == 1

MODERN_VERSION == 2

\* MmioVersion::try_from: the variant of a version register value.
MmioVersionTryFrom(ver) ==
    IF ver = U32(LEGACY_VERSION) THEN [ok |-> TRUE, v |-> "Legacy"]
    ELSE IF ver = U32(MODERN_VERSION) THEN [ok |-> TRUE, v |-> "Modern"]
    ELSE [ok |-> FALSE, v |-> "UnsupportedVersion"]

----------------------------------------------------------------------------
(* The register block.                                                     *)

\* The registers of VirtIOHeader (reserved words left out).
Regs ==
    {"magic", "version", "device_id", "vendor_id", "device_features",
     "device_features_sel", "driver_features", "driver_features_sel",
     "legacy_guest_page_size", "queue_sel", "queue_num_max", "queue_num",
     "legacy_queue_align", "legacy_queue_pfn", "queue_ready", "queue_notify",
     "interrupt_status", "interrupt_ack", "status", "queue_desc_low",
     "queue_desc_high", "queue_driver_low", "queue_driver_high",
     "queue_device_low", "queue_device_high", "config_generation"}

\* The registers a device keeps per queue, behind the queue selector.
QueueRegs ==
    {"queue_num_max", "queue_num", "legacy_queue_align", "legacy_queue_pfn",
     "queue_ready", "queue_desc_low", "queue_desc_high", "queue_driver_low",
     "queue_driver_high", "queue_device_low", "queue_device_high"}

\* The queues a device of the model has.
Queues == {0, 1}

\* The index a selector register value selects (-1: none the model keeps).
SelIdx(v) == IF v[2] = 0 THEN v[1] ELSE -1

\* VirtIOHeader::make_fake_header: plain memory, every register a cell of its
\* own; the registers not given start at their default, zero.
make_fake_header(ver, devid, vendor, features, num_max) ==
    [kind |-> "fake",
     mem |-> [r \in Regs |->
                CASE r = "magic" -> MAGIC_VALUE
                  [] r = "version" -> ver
                  [] r = "device_id" -> devid
                  [] r = "vendor_id" -> vendor
                  [] r = "device_features" -> features
                  [] r = "queue_num_max" -> num_max
                  [] OTHER -> Zero32],
     feat |-> [s \in 0..1 |-> Zero32],
     drv |-> [s \in 0..1 |-> Zero32],
     q |-> [i \in Queues |-> [r \in QueueRegs |-> Zero32]]]

\* A device behind the register block, as the register documentation of
\* VirtIOHeader describes it: the feature registers are windows selected by
\* the feature selectors, the queue registers apply to the queue selected by
\* queue_sel.
DeviceBlock(magic, ver, devid, vendor, featLow, featHigh, numMax, irq) ==
    [kind |-> "device",
     mem |-> [r \in Regs |->
                CASE r = "magic" -> magic
                  [] r = "version" -> ver
                  [] r = "device_id" -> devid
                  [] r = "vendor_id" -> vendor
                  [] r = "interrupt_status" -> irq
                  [] OTHER -> Zero32],
     feat |-> [s \in 0..1 |-> IF s = 0 THEN featLow ELSE featHigh],
     drv |-> [s \in 0..1 |-> Zero32],
     q |-> [i \in Queues |->
              [r \in QueueRegs |->
                 IF r = "queue_num_max" THEN numMax[i] ELSE Zero32]]]

\* What a volatile read of register reg returns.
DevRead(h, reg) ==
    IF h.kind = "fake" THEN h.mem[reg]
    ELSE IF reg = "device_features"
    THEN IF SelIdx(h.mem["device_features_sel"]) \in 0..1
         THEN h.feat[SelIdx(h.mem["device_features_sel"])]
         ELSE Zero32
    ELSE IF reg \in QueueRegs
    THEN IF SelIdx(h.mem["queue_sel"]) \in Queues
         THEN h.q[SelIdx(h.mem["queue_sel"])][reg]
         ELSE Zero32
    ELSE h.mem[reg]

\* The register block after a volatile write of v to register reg.  A device
\* stores a windowed register under the current selector; a write of zero to
\* its status register resets it (no queue stays in use).
DevWrite(h, reg, v) ==
    IF h.kind = "fake" THEN [h EXCEPT !.mem[reg] = v]
    ELSE IF reg = "driver_features"
    THEN IF SelIdx(h.mem["driver_features_sel"]) \in 0..1
         THEN [h EXCEPT !.drv[SelIdx(h.mem["driver_features_sel"])] = v]
         ELSE h
    ELSE IF reg \in QueueRegs
    THEN IF SelIdx(h.mem["queue_sel"]) \in Queues
         THEN [h EXCEPT !.q[SelIdx(h.mem["queue_sel"])][reg] = v]
         ELSE h
    ELSE IF reg = "status" /\ IsZero(v)
    THEN [h EXCEPT !.mem[reg] = v,
                   !.q = [i \in Queues |->
                            [r \in QueueRegs |->
                               IF r \in {"legacy_queue_pfn", "queue_ready"}
                               THEN Zero32 ELSE h.q[i][r]]]]
    ELSE [h EXCEPT !.mem[reg] = v]

\* A run of register accesses: the register block and the accesses so far.
Start(h) == [hdr |-> h, log |-> <<>>]

\* reg.read(): the access is logged; RdVal is the value it returns.
RdVal(m, reg) == DevRead(m.hdr, reg)

Rd(m, reg) ==
    [m EXCEPT !.log = Append(@, [k |-> "r", reg |-> reg, val |-> RdVal(m, reg)])]

\* reg.write(v)
Wr(m, reg, v) ==
    [hdr |-> DevWrite(m.hdr, reg, v),
     log |-> Append(m.log, [k |-> "w", reg |-> reg, val |-> v])]

----------------------------------------------------------------------------
(* Types and constants of the crate that the transport uses.               *)

\* PAGE_SIZE of the crate, in bytes.
PAGE_SIZE == 4096

\* size_of::<Descriptor>(): a virtqueue descriptor-table entry, in bytes.
DescriptorSize == 16

\* size_of::<u16>(): a ring entry, in bytes.
U16Size == 2

\* align_up of the crate: size rounded up to a multiple of the page size.
align_up(size) ==
    MulSmall(DivSmall(AddW(size, U64(PAGE_SIZE - 1)), PAGE_SIZE), PAGE_SIZE)

\* The variants of DeviceType with their discriminants.
DeviceTypeOf(d) ==
    CASE d = 1 -> "Network"
      [] d = 2 -> "Block"
      [] d = 3 -> "Console"
      [] d = 4 -> "EntropySource"
      [] d = 5 -> "MemoryBallooning"
      [] d = 6 -> "IoMemory"
      [] d = 7 -> "Rpmsg"
      [] d = 8 -> "ScsiHost"
      [] d = 9 -> "_9P"
      [] d = 10 -> "Mac80211"
      [] d = 11 -> "RprocSerial"
      [] d = 12 -> "VirtioCAIF"
      [] d = 13 -> "MemoryBalloon"
      [] d = 16 -> "GPU"
      [] d = 17 -> "Timer"
      [] d = 18 -> "Input"
      [] d = 19 -> "Socket"
      [] d = 20 -> "Crypto"
      [] d = 21 -> "SignalDistributionModule"
      [] d = 22 -> "Pstore"
      [] d = 23 -> "IOMMU"
      [] d = 24 -> "Memory"
      [] d = 0 -> "Invalid"
      [] OTHER -> "undefined"

\* The flags of DeviceStatus with their bits.
StatusFlagBit(f) ==
    CASE f = "ACKNOWLEDGE" -> 1
      [] f = "DRIVER" -> 2
      [] f = "DRIVER_OK" -> 4
      [] f = "FEATURES_OK" -> 8
      [] f = "DEVICE_NEEDS_RESET" -> 64
      [] f = "FAILED" -> 128

RECURSIVE SumBits(_)
SumBits(fs) ==
    IF fs = {} THEN 0
    ELSE LET f == CHOOSE x \in fs : TRUE
         IN StatusFlagBit(f) + SumBits(fs \ {f})

\* DeviceStatus::bits of a set of flags, as the u32 the register holds.
StatusBits(fs) == U32(SumBits(fs))

----------------------------------------------------------------------------
(* The transport.  Every operation is the run of register accesses of its  *)
(* body, from the register block h: the result holds the run (register     *)
(* block and access log) and what the call returns.                        *)

\* What a call leaves: the run, the value returned (val: a number, b: a
\* bool, ty: an enum variant) and whether it panicked.
Out(m, val, b, ty) == [m |-> m, val |-> val, b |-> b, ty |-> ty, panic |-> FALSE]

Panic(m) == [m |-> m, val |-> <<>>, b |-> FALSE, ty |-> "", panic |-> TRUE]

\* new with the device-id check ahead of the magic check.
new_id_first(h) ==
    LET m0 == Start(h)
        m1 == Rd(m0, "device_id")
        magic == RdVal(m1, "magic")
        m2 == Rd(m1, "magic")
        ver == MmioVersionTryFrom(RdVal(m2, "version"))
        m3 == Rd(m2, "version")
    IN  IF RdVal(m0, "device_id") = U32(0)
        THEN Out(m1, <<>>, FALSE, "ZeroDeviceId")
        ELSE IF magic # MAGIC_VALUE
        THEN Out(m2, magic, FALSE, "BadMagic")
        ELSE IF ~ver.ok
        THEN Out(m3, RdVal(m2, "version"), FALSE, "UnsupportedVersion")
        ELSE Out(m3, <<>>, TRUE, ver.v)

\* new reading the three registers before it validates any.
new_reads_ahead(h) ==
    LET m3 == Rd(Rd(Rd(Start(h), "magic"), "device_id"), "version")
        magic == RdVal(m3, "magic")
        ver == MmioVersionTryFrom(RdVal(m3, "version"))
    IN  IF magic # MAGIC_VALUE
        THEN Out(m3, magic, FALSE, "BadMagic")
        ELSE IF RdVal(m3, "device_id") = U32(0)
        THEN Out(m3, <<>>, FALSE, "ZeroDeviceId")
        ELSE IF ~ver.ok
        THEN Out(m3, RdVal(m3, "version"), FALSE, "UnsupportedVersion")
        ELSE Out(m3, <<>>, TRUE, ver.v)

\* MmioTransport::new
new(h) ==
    LET m0 == Start(h)
        magic == RdVal(m0, "magic")
        m1 == Rd(m0, "magic")
        m2 == Rd(m1, "device_id")
        ver == MmioVersionTryFrom(RdVal(m2, "version"))
        m3 == Rd(m2, "version")
    IN  IF magic # MAGIC_VALUE
        THEN Out(m1, magic, FALSE, "BadMagic")
        ELSE IF RdVal(m1, "device_id") = U32(0)
        THEN Out(m2, <<>>, FALSE, "ZeroDeviceId")
        ELSE IF ~ver.ok
        THEN Out(m3, RdVal(m2, "version"), FALSE, "UnsupportedVersion")
        ELSE Out(m3, <<>>, TRUE, ver.v)

\* MmioTransport::version
version(h, ver) == Out(Start(h), <<>>, TRUE, ver)

\* MmioTransport::vendor_id
vendor_id(h) ==
    LET m0 == Start(h)
    IN  Out(Rd(m0, "vendor_id"), RdVal(m0, "vendor_id"), TRUE, "")

\* The u32 x is within lo..=hi (small bounds).
InRange(x, lo, hi) == x[2] = 0 /\ x[1] >= lo /\ x[1] <= hi

\* device_type matching on the id cut to a u8.
device_type_u8(h) ==
    LET m0 == Start(h)
        x == U32(RdVal(m0, "device_id")[1] % 256)
        m1 == Rd(m0, "device_id")
    IN  IF InRange(x, 1, 13) \/ InRange(x, 16, 24)
        THEN Out(m1, <<>>, TRUE, DeviceTypeOf(x[1] % 256))
        ELSE Out(m1, <<>>, TRUE, "Invalid")

\* Transport::device_type
device_type(h) ==
    LET m0 == Start(h)
        x == RdVal(m0, "device_id")
        m1 == Rd(m0, "device_id")
    IN  IF InRange(x, 1, 13) \/ InRange(x, 16, 24)
        THEN Out(m1, <<>>, TRUE, DeviceTypeOf(x[1] % 256))
        ELSE Out(m1, <<>>, TRUE, "Invalid")

\* read_device_features without the shift of the high word.
read_device_features_noshift(h, oc) ==
    LET m0 == Start(h)
        m1 == Wr(m0, "device_features_sel", U32(0))
        low == Widen(RdVal(m1, "device_features"))
        m2 == Rd(m1, "device_features")
        m3 == Wr(m2, "device_features_sel", U32(1))
        high == Widen(RdVal(m3, "device_features"))
        m4 == Rd(m3, "device_features")
    IN  IF oc /\ AddOverflows(low, high)
        THEN Panic(m4)
        ELSE Out(m4, AddW(low, high), TRUE, "")

\* Transport::read_device_features.  The += panics on overflow where overflow
\* checks are on (oc) and wraps where they are off.
read_device_features(h, oc) ==
    LET m0 == Start(h)
        m1 == Wr(m0, "device_features_sel", U32(0))
        low == Widen(RdVal(m1, "device_features"))
        m2 == Rd(m1, "device_features")
        m3 == Wr(m2, "device_features_sel", U32(1))
        high == Shl32(Widen(RdVal(m3, "device_features")))
        m4 == Rd(m3, "device_features")
    IN  IF oc /\ AddOverflows(low, high)
        THEN Panic(m4)
        ELSE Out(m4, AddW(low, high), TRUE, "")

\* write_driver_features writing the low word under both selectors.
write_driver_features_noshift(h, driver_features) ==
    LET m0 == Start(h)
        m1 == Wr(m0, "driver_features_sel", U32(0))
        m2 == Wr(m1, "driver_features", TruncU32(driver_features))
        m3 == Wr(m2, "driver_features_sel", U32(1))
        m4 == Wr(m3, "driver_features", TruncU32(driver_features))
    IN  Out(m4, <<>>, TRUE, "")

\* Transport::write_driver_features
write_driver_features(h, driver_features) ==
    LET m0 == Start(h)
        m1 == Wr(m0, "driver_features_sel", U32(0))
        m2 == Wr(m1, "driver_features", TruncU32(driver_features))
        m3 == Wr(m2, "driver_features_sel", U32(1))
        m4 == Wr(m3, "driver_features", TruncU32(Shr32(driver_features)))
    IN  Out(m4, <<>>, TRUE, "")

\* max_queue_size selecting queue 0 before it reads.
max_queue_size_select0(h) ==
    LET m1 == Wr(Start(h), "queue_sel", U32(0))
    IN  Out(Rd(m1, "queue_num_max"), RdVal(m1, "queue_num_max"), TRUE, "")

\* Transport::max_queue_size
max_queue_size(h) ==
    LET m0 == Start(h)
    IN  Out(Rd(m0, "queue_num_max"), RdVal(m0, "queue_num_max"), TRUE, "")

\* notify selecting the queue before it rings the doorbell.
notify_selects(h, queue) ==
    Out(Wr(Wr(Start(h), "queue_sel", queue), "queue_notify", queue), <<>>, TRUE, "")

\* Transport::notify
notify(h, queue) == Out(Wr(Start(h), "queue_notify", queue), <<>>, TRUE, "")

\* set_status keeping the flags already set (read, or, write).
set_status_rmw(h, status) ==
    LET m0 == Start(h)
        m1 == Rd(m0, "status")
    IN  Out(Wr(m1, "status", StatusBits(status)), <<>>, TRUE, "")

\* Transport::set_status
set_status(h, status) ==
    Out(Wr(Start(h), "status", StatusBits(status)), <<>>, TRUE, "")

\* set_guest_page_size writing the register whatever the variant.
set_guest_page_size_always(h, ver, guest_page_size) ==
    Out(Wr(Start(h), "legacy_guest_page_size", guest_page_size), <<>>, TRUE, "")

\* set_guest_page_size asking the device for its version on every call.
set_guest_page_size_rereads(h, ver, guest_page_size) ==
    LET m1 == Rd(Start(h), "version")
    IN  IF MmioVersionTryFrom(RdVal(Start(h), "version")).v = "Legacy"
        THEN Out(Wr(m1, "legacy_guest_page_size", guest_page_size), <<>>, TRUE, "")
        ELSE Out(m1, <<>>, TRUE, "")

\* Transport::set_guest_page_size
set_guest_page_size(h, ver, guest_page_size) ==
    IF ver = "Legacy"
    THEN Out(Wr(Start(h), "legacy_guest_page_size", guest_page_size), <<>>, TRUE, "")
    ELSE Out(Start(h), <<>>, TRUE, "")

\* ack_interrupt acknowledging whatever it read, zero included.
ack_interrupt_always(h) ==
    LET m0 == Start(h)
        interrupt == RdVal(m0, "interrupt_status")
        m1 == Rd(m0, "interrupt_status")
    IN  Out(Wr(m1, "interrupt_ack", interrupt), <<>>, interrupt # U32(0), "")

\* Transport::ack_interrupt
ack_interrupt(h) ==
    LET m0 == Start(h)
        interrupt == RdVal(m0, "interrupt_status")
        m1 == Rd(m0, "interrupt_status")
    IN  IF interrupt # U32(0)
        THEN Out(Wr(m1, "interrupt_ack", interrupt), <<>>, TRUE, "")
        ELSE Out(m1, <<>>, FALSE, "")

\* The Legacy writes with the page number written ahead of size and alignment.
queue_set_legacy_writes_pfn_first(h, queue, size, align, pfn) ==
    LET m1 == Wr(Start(h), "queue_sel", queue)
        m2 == Wr(m1, "legacy_queue_pfn", pfn)
        m3 == Wr(m2, "queue_num", size)
    IN  Wr(m3, "legacy_queue_align", align)

\* The register writes of the Legacy arm of queue_set, after its assertions.
queue_set_legacy_writes(h, queue, size, align, pfn) ==
    LET m1 == Wr(Start(h), "queue_sel", queue)
        m2 == Wr(m1, "queue_num", size)
        m3 == Wr(m2, "legacy_queue_align", align)
    IN  Wr(m3, "legacy_queue_pfn", pfn)

\* The Legacy arm without the assertion on the page number.
queue_set_legacy_no_pfn_assert(h, oc, queue, size, descriptors, driver_area, device_area) ==
    LET table == MulSmall(Widen(size), DescriptorSize)
        rings == AddW(table, MulSmall(AddW(Widen(size), U64(3)), U16Size))
        align == U32(PAGE_SIZE)
        pfn == TruncU32(DivSmall(descriptors, PAGE_SIZE))
    IN  IF oc /\ SubUnderflows(driver_area, descriptors)
        THEN Panic(Start(h))
        ELSE IF SubW(driver_area, descriptors) # table
        THEN Panic(Start(h))
        ELSE IF oc /\ SubUnderflows(device_area, descriptors)
        THEN Panic(Start(h))
        ELSE IF SubW(device_area, descriptors) # align_up(rings)
        THEN Panic(Start(h))
        ELSE Out(queue_set_legacy_writes(h, queue, size, align, pfn), <<>>, TRUE, "")

\* The Legacy arm selecting the queue ahead of its layout asserts.
queue_set_legacy_select_first(h, oc, queue, size, descriptors, driver_area, device_area) ==
    LET table == MulSmall(Widen(size), DescriptorSize)
        rings == AddW(table, MulSmall(AddW(Widen(size), U64(3)), U16Size))
        pfn == TruncU32(DivSmall(descriptors, PAGE_SIZE))
        m1 == Wr(Start(h), "queue_sel", queue)
        m2 == Wr(m1, "queue_num", size)
        m3 == Wr(m2, "legacy_queue_align", U32(PAGE_SIZE))
    IN  IF \/ oc /\ SubUnderflows(driver_area, descriptors)
           \/ SubW(driver_area, descriptors) # table
           \/ oc /\ SubUnderflows(device_area, descriptors)
           \/ SubW(device_area, descriptors) # align_up(rings)
           \/ MulSmall(Widen(pfn), PAGE_SIZE) # descriptors
        THEN Panic(m1)
        ELSE Out(Wr(m3, "legacy_queue_pfn", pfn), <<>>, TRUE, "")

\* The Legacy arm asserting only that the descriptor address is a multiple of
\* the page size.
queue_set_legacy_align_assert(h, oc, queue, size, descriptors, driver_area, device_area) ==
    LET table == MulSmall(Widen(size), DescriptorSize)
        rings == AddW(table, MulSmall(AddW(Widen(size), U64(3)), U16Size))
        pfn == TruncU32(DivSmall(descriptors, PAGE_SIZE))
    IN  IF \/ oc /\ SubUnderflows(driver_area, descriptors)
           \/ SubW(driver_area, descriptors) # table
           \/ oc /\ SubUnderflows(device_area, descriptors)
           \/ SubW(device_area, descriptors) # align_up(rings)
           \/ descriptors[1] % PAGE_SIZE # 0
        THEN Panic(Start(h))
        ELSE Out(queue_set_legacy_writes(h, queue, size, U32(PAGE_SIZE), pfn), <<>>, TRUE, "")

\* The Legacy arm of Transport::queue_set.  A usize subtraction that
\* underflows panics where overflow checks are on (oc) and wraps where they
\* are off; a failed assert_eq! panics.
queue_set_legacy(h, oc, queue, size, descriptors, driver_area, device_area) ==
    LET table == MulSmall(Widen(size), DescriptorSize)
        rings == AddW(table, MulSmall(AddW(Widen(size), U64(3)), U16Size))
        align == U32(PAGE_SIZE)
        pfn == TruncU32(DivSmall(descriptors, PAGE_SIZE))
    IN  IF oc /\ SubUnderflows(driver_area, descriptors)
        THEN Panic(Start(h))
        ELSE IF SubW(driver_area, descriptors) # table
        THEN Panic(Start(h))
        ELSE IF oc /\ SubUnderflows(device_area, descriptors)
        THEN Panic(Start(h))
        ELSE IF SubW(device_area, descriptors) # align_up(rings)
        THEN Panic(Start(h))
        ELSE IF MulSmall(Widen(pfn), PAGE_SIZE) # descriptors
        THEN Panic(Start(h))
        ELSE Out(queue_set_legacy_writes(h, queue, size, align, pfn), <<>>, TRUE, "")

\* The Modern arm marking the queue ready ahead of its addresses.
queue_set_modern_ready_first(h, queue, size, descriptors, driver_area, device_area) ==
    LET m1 == Wr(Start(h), "queue_sel", queue)
        m2 == Wr(m1, "queue_num", size)
        m3 == Wr(m2, "queue_ready", U32(1))
        m4 == Wr(m3, "queue_desc_low", TruncU32(descriptors))
        m5 == Wr(m4, "queue_desc_high", TruncU32(Shr32(descriptors)))
        m6 == Wr(m5, "queue_driver_low", TruncU32(driver_area))
        m7 == Wr(m6, "queue_driver_high", TruncU32(Shr32(driver_area)))
        m8 == Wr(m7, "queue_device_low", TruncU32(device_area))
        m9 == Wr(m8, "queue_device_high", TruncU32(Shr32(device_area)))
    IN  Out(m9, <<>>, TRUE, "")

\* The Modern arm with each high half taken without the shift.
queue_set_modern_noshift(h, queue, size, descriptors, driver_area, device_area) ==
    LET m1 == Wr(Start(h), "queue_sel", queue)
        m2 == Wr(m1, "queue_num", size)
        m3 == Wr(m2, "queue_desc_low", TruncU32(descriptors))
        m4 == Wr(m3, "queue_desc_high", TruncU32(descriptors))
        m5 == Wr(m4, "queue_driver_low", TruncU32(driver_area))
        m6 == Wr(m5, "queue_driver_high", TruncU32(driver_area))
        m7 == Wr(m6, "queue_device_low", TruncU32(device_area))
        m8 == Wr(m7, "queue_device_high", TruncU32(device_area))
        m9 == Wr(m8, "queue_ready", U32(1))
    IN  Out(m9, <<>>, TRUE, "")

\* The Modern arm of Transport::queue_set.
queue_set_modern(h, queue, size, descriptors, driver_area, device_area) ==
    LET m1 == Wr(Start(h), "queue_sel", queue)
        m2 == Wr(m1, "queue_num", size)
        m3 == Wr(m2, "queue_desc_low", TruncU32(descriptors))
        m4 == Wr(m3, "queue_desc_high", TruncU32(Shr32(descriptors)))
        m5 == Wr(m4, "queue_driver_low", TruncU32(driver_area))
        m6 == Wr(m5, "queue_driver_high", TruncU32(Shr32(driver_area)))
        m7 == Wr(m6, "queue_device_low", TruncU32(device_area))
        m8 == Wr(m7, "queue_device_high", TruncU32(Shr32(device_area)))
        m9 == Wr(m8, "queue_ready", U32(1))
    IN  Out(m9, <<>>, TRUE, "")

\* Transport::queue_set
queue_set(h, ver, oc, queue, size, descriptors, driver_area, device_area) ==
    IF ver = "Legacy"
    THEN queue_set_legacy(h, oc, queue, size, descriptors, driver_area, device_area)
    ELSE queue_set_modern(h, queue, size, descriptors, driver_area, device_area)

\* queue_used reading the register without selecting the queue.
queue_used_no_select(h, ver, queue) ==
    LET m0 == Start(h)
    IN  IF ver = "Legacy"
        THEN Out(Rd(m0, "legacy_queue_pfn"), <<>>,
                 RdVal(m0, "legacy_queue_pfn") # U32(0), "")
        ELSE Out(Rd(m0, "queue_ready"), <<>>,
                 RdVal(m0, "queue_ready") # U32(0), "")

\* Transport::queue_used
queue_used(h, ver, queue) ==
    LET m1 == Wr(Start(h), "queue_sel", queue)
    IN  IF ver = "Legacy"
        THEN Out(Rd(m1, "legacy_queue_pfn"), <<>>,
                 RdVal(m1, "legacy_queue_pfn") # U32(0), "")
        ELSE Out(Rd(m1, "queue_ready"), <<>>,
                 RdVal(m1, "queue_ready") # U32(0), "")

----------------------------------------------------------------------------
(* The inputs of the model.                                                *)

\* The most calls made on one transport.
MaxOps == 2

\* 0xDEADBEEF
BadMagicValue == W32(57005, 48879)

\* 0x1AF4
VendorValue == U32(6900)

VersionValues == {U32(1), U32(2), U32(3)}

DeviceIdValues == {U32(0), U32(2)}

\* The queue maxima of a device, per queue.
NumMaxOf == [i \in Queues |-> IF i = 0 THEN U32(256) ELSE U32(128)]

FakeHeaders ==
    {make_fake_header(v, d, VendorValue, f, U32(256)) :
        v \in VersionValues, d \in DeviceIdValues, f \in {U32(1)}}

\* (low, high) device feature words paired with an interrupt status.
DeviceFaces ==
    {<<<<U32(1), U32(0)>>, U32(0)>>,
     <<<<W32(65535, 65535), W32(32768, 1)>>, U32(3)>>}

DeviceBlocks ==
    {DeviceBlock(mg, v, d, VendorValue, f[1][1], f[1][2], NumMaxOf, f[2]) :
        mg \in {MAGIC_VALUE, BadMagicValue}, v \in VersionValues,
        d \in DeviceIdValues, f \in DeviceFaces}

\* 64-bit driver feature masks.
FeatureMasks ==
    {Zero64, U64(1), W64(0, 1, 0, 0), W64(32768, 1, 65535, 65534)}

Statuses ==
    {{}, {"ACKNOWLEDGE", "DRIVER"}, {"ACKNOWLEDGE", "DRIVER", "FEATURES_OK"}}

GuestPageSizes == {U32(4096)}

QueueIds == {U32(i) : i \in Queues}

\* A queue of n entries whose descriptor table is at d, with the driver area
\* da bytes and the device area ua bytes after it (modulo 2^64).
Layout(n, d, da, ua) ==
    [size |-> U32(n), desc |-> d,
     driver |-> AddW(d, U64(da)), device |-> AddW(d, U64(ua))]

\* Queue geometries: well laid out (small and large addresses), descriptor
\* table not page aligned, page number beyond 32 bits, driver or device area
\* misplaced, areas below the table, arbitrary addresses.
QueueLayouts ==
    {Layout(4, U64(4096), 64, 4096),
     Layout(256, W64(0, 256, 0, 0), 4096, 8192),
     Layout(4, U64(4104), 64, 4096),
     Layout(4, W64(0, 4096, 0, 0), 64, 4096),
     Layout(4, U64(4096), 128, 4096),
     Layout(4, U64(4096), 64, 8192),
     Layout(256, W64(65535, 65535, 65535, 61440), 4096, 8192),
     [size |-> U32(4), desc |-> U64(8192), driver |-> U64(4096),
      device |-> U64(12288)],
     [size |-> U32(8), desc |-> W64(57005, 48879, 4660, 22136),
      driver |-> W64(0, 1, 65535, 65535), device |-> W64(32768, 0, 0, 1)]}

----------------------------------------------------------------------------
(* The state machine: one register block, at most one transport on it.     *)

\* The record of a call: its name, its arguments, what it returned.
Call(op, args, o) ==
    [op |-> op, args |-> args, val |-> o.val, b |-> o.b, ty |-> o.ty,
     panic |-> o.panic]

NoCall ==
    [op |-> "none", args |-> <<>>, val |-> <<>>, b |-> FALSE, ty |-> "",
     panic |-> FALSE]

NoTransport == [state |-> "none", version |-> "none"]

InitWith(blocks, calls) ==
    /\ hdr \in blocks
    /\ tr = NoTransport
    /\ log = <<>>
    /\ ret = NoCall
    /\ prev = NoCall
    /\ lastStatus = {}
    /\ steps = calls
    /\ verAtNew = Zero32
    /\ queuesSet = {}
    /\ queuesZero = {}
    /\ lastQueue = 0

Init == InitWith(FakeHeaders \cup DeviceBlocks, MaxOps)

\* MmioTransport::new(header): Ok gives the transport, Err gives none.
New ==
    /\ tr.state = "none"
    /\ LET o == new(hdr)
       IN  /\ hdr' = o.m.hdr
           /\ log' = o.m.log
           /\ ret' = Call("new", <<>>, o)
           /\ tr' = IF o.b THEN [state |-> "ok", version |-> o.ty]
                    ELSE [state |-> "err", version |-> "none"]
    /\ prev' = ret
    /\ verAtNew' = DevRead(hdr, "version")
    /\ UNCHANGED <<lastStatus, steps, queuesSet, queuesZero, lastQueue>>

\* A call on the transport leaves the run's register block and accesses; a
\* panic ends the program.
Does(op, args, o) ==
    /\ tr.state = "ok"
    /\ steps > 0
    /\ hdr' = o.m.hdr
    /\ log' = o.m.log
    /\ ret' = Call(op, args, o)
    /\ prev' = ret
    /\ tr' = IF o.panic THEN [tr EXCEPT !.state = "panicked"] ELSE tr
    /\ steps' = steps - 1
    /\ UNCHANGED verAtNew

Version ==
    /\ Does("version", <<>>, version(hdr, tr.version))
    /\ UNCHANGED <<lastStatus, queuesSet, queuesZero, lastQueue>>

VendorId ==
    /\ Does("vendor_id", <<>>, vendor_id(hdr))
    /\ UNCHANGED <<lastStatus, queuesSet, queuesZero, lastQueue>>

DeviceType ==
    /\ Does("device_type", <<>>, device_type(hdr))
    /\ UNCHANGED <<lastStatus, queuesSet, queuesZero, lastQueue>>

ReadDeviceFeatures ==
    /\ \E oc \in BOOLEAN :
          Does("read_device_features", <<>>, read_device_features(hdr, oc))
    /\ UNCHANGED <<lastStatus, queuesSet, queuesZero, lastQueue>>

WriteDriverFeatures ==
    /\ \E f \in FeatureMasks :
          Does("write_driver_features", <<f>>, write_driver_features(hdr, f))
    /\ UNCHANGED <<lastStatus, queuesSet, queuesZero, lastQueue>>

MaxQueueSize ==
    /\ Does("max_queue_size", <<>>, max_queue_size(hdr))
    /\ UNCHANGED <<lastStatus, queuesSet, queuesZero, lastQueue>>

Notify ==
    /\ \E q \in QueueIds : Does("notify", <<q>>, notify(hdr, q))
    /\ UNCHANGED <<lastStatus, queuesSet, queuesZero, lastQueue>>

SetStatus ==
    \E s \in Statuses :
       /\ Does("set_status", <<StatusBits(s)>>, set_status(hdr, s))
       /\ lastStatus' = s
       /\ queuesSet' = IF s = {} THEN {} ELSE queuesSet
       /\ queuesZero' = IF s = {} THEN {} ELSE queuesZero
       /\ UNCHANGED lastQueue

SetGuestPageSize ==
    /\ \E p \in GuestPageSizes :
          Does("set_guest_page_size", <<p>>,
               set_guest_page_size(hdr, tr.version, p))
    /\ UNCHANGED <<lastStatus, queuesSet, queuesZero, lastQueue>>

QueueSetFrom(layouts) ==
    /\ \E q \in QueueIds, l \in layouts, oc \in BOOLEAN :
          LET o == queue_set(hdr, tr.version, oc, q, l.size, l.desc,
                             l.driver, l.device)
          IN  /\ Does("queue_set", <<q, l.size, l.desc, l.driver, l.device>>, o)
              /\ queuesSet' = IF o.panic THEN queuesSet
                              ELSE queuesSet \cup {SelIdx(q)}
              /\ queuesZero' =
                    IF o.panic THEN queuesZero
                    ELSE IF tr.version = "Legacy" /\ IsZero(l.desc)
                    THEN queuesZero \cup {SelIdx(q)}
                    ELSE queuesZero \ {SelIdx(q)}
              /\ lastQueue' = IF o.panic THEN lastQueue ELSE SelIdx(q)
    /\ UNCHANGED lastStatus

QueueSet == QueueSetFrom(QueueLayouts)

QueueUsed ==
    /\ \E q \in QueueIds :
          /\ Does("queue_used", <<q>>, queue_used(hdr, tr.version, q))
          /\ lastQueue' = SelIdx(q)
    /\ UNCHANGED <<lastStatus, queuesSet, queuesZero>>

AckInterrupt ==
    /\ Does("ack_interrupt", <<>>, ack_interrupt(hdr))
    /\ UNCHANGED <<lastStatus, queuesSet, queuesZero, lastQueue>>

Next ==
    \/ New
    \/ Version
    \/ VendorId
    \/ DeviceType
    \/ ReadDeviceFeatures
    \/ WriteDriverFeatures
    \/ MaxQueueSize
    \/ Notify
    \/ SetStatus
    \/ SetGuestPageSize
    \/ QueueSet
    \/ QueueUsed
    \/ AckInterrupt

Spec == Init /\ [][Next]_vars

----------------------------------------------------------------------------
(* A device whose version register changes under a constructed transport.  *)

DriftBlocks ==
    {DeviceBlock(MAGIC_VALUE, v, U32(2), VendorValue, U32(1), U32(0), NumMaxOf, U32(0)) :
        v \in {U32(LEGACY_VERSION), U32(MODERN_VERSION)}}

InitDrift == InitWith(DriftBlocks, MaxOps)

\* The device shows another value in its version register.
VersionDrifts ==
    /\ tr.state = "ok"
    /\ \E v \in VersionValues \ {hdr.mem["version"]} :
          hdr' = [hdr EXCEPT !.mem["version"] = v]
    /\ UNCHANGED <<tr, log, ret, prev, lastStatus, steps, verAtNew, queuesSet, queuesZero, lastQueue>>

NextDrift ==
    \/ Next
    \/ VersionDrifts

SpecDrift == InitDrift /\ [][NextDrift]_vars

----------------------------------------------------------------------------
(* Queue life cycle: longer runs of the queue operations on a device that  *)
(* keeps its queue registers per queue.                                    *)

\* The most calls made on one transport in a queue run.
MaxQueueOps == 3

\* Well laid out at one page, well laid out at address zero, and unaligned.
SmallLayouts ==
    {Layout(4, U64(4096), 64, 4096),
     Layout(4, U64(0), 64, 4096),
     Layout(4, U64(4104), 64, 4096)}

InitQueues == InitWith(DriftBlocks, MaxQueueOps)

QueueSetSmall == QueueSetFrom(SmallLayouts)

NextQueues ==
    \/ New
    \/ QueueSetSmall
    \/ QueueUsed
    \/ MaxQueueSize
    \/ SetStatus

SpecQueues == InitQueues /\ [][NextQueues]_vars

----------------------------------------------------------------------------
(* Probing: construction and the identity queries over a wide range of     *)
(* header register values.                                                 *)

\* The largest device id of the dense range probed.
MaxProbeId == 26

ProbeMagics == {MAGIC_VALUE, BadMagicValue, U32(0)}

ProbeVersions == {U32(0), U32(1), U32(2), U32(3), W32(1, 1), W32(1, 2)}

ProbeDeviceIds ==
    {U32(i) : i \in 0..MaxProbeId} \cup {U32(258), W32(1, 2), W32(32768, 0)}

ProbeBlocks ==
    {DeviceBlock(mg, v, d, VendorValue, U32(1), U32(0), NumMaxOf, U32(0)) :
        mg \in ProbeMagics, v \in ProbeVersions, d \in ProbeDeviceIds}
    \cup
    {make_fake_header(v, d, VendorValue, U32(1), U32(256)) :
        v \in ProbeVersions, d \in ProbeDeviceIds}

InitProbe == InitWith(ProbeBlocks, MaxOps)

NextProbe ==
    \/ New
    \/ Version
    \/ VendorId
    \/ DeviceType
    \/ MaxQueueSize

SpecProbe == InitProbe /\ [][NextProbe]_vars

----------------------------------------------------------------------------
(* Properties.                                                             *)

\* The access log holds exactly the given accesses.
Access(k, reg, val) == [k |-> k, reg |-> reg, val |-> val]

Writes(l) == {i \in 1..Len(l) : l[i].k = "w"}

\* C1: whatever the magic, device-id and version registers hold, new
\* classifies in a fixed priority order: a magic other than 0x74726976 gives
\* BadMagic(magic); else a device id of 0 gives ZeroDeviceId; else a version
\* other than 1 and 2 gives UnsupportedVersion(version); else construction
\* succeeds, as Legacy for version 1 and as Modern for version 2.
C1_NewClassifiesInOrder ==
    LET magic == hdr.mem["magic"]
        id == hdr.mem["device_id"]
        ver == hdr.mem["version"]
    IN  /\ tr.state # "none" =>
             IF magic # <<26998, 29810>> \/ id = <<0, 0>>
                \/ ver \notin {<<1, 0>>, <<2, 0>>}
             THEN tr.state = "err"
             ELSE /\ tr.state \in {"ok", "panicked"}
                  /\ tr.version = IF ver = <<1, 0>> THEN "Legacy" ELSE "Modern"
        /\ ret.op = "new" =>
             IF magic # <<26998, 29810>>
             THEN ret.ty = "BadMagic" /\ ret.val = magic
             ELSE IF id = <<0, 0>>
             THEN ret.ty = "ZeroDeviceId"
             ELSE IF ver \notin {<<1, 0>>, <<2, 0>>}
             THEN ret.ty = "UnsupportedVersion" /\ ret.val = ver
             ELSE ret.b /\ ret.ty \in {"Legacy", "Modern"}

\* C1 witness: a header wrong in all three registers was classified by its
\* magic.
C1_Witness ==
    /\ ret.op = "new"
    /\ hdr.mem["magic"] = BadMagicValue
    /\ hdr.mem["device_id"] = U32(0)
    /\ hdr.mem["version"] = U32(3)
    /\ ret.ty = "BadMagic"

\* C2: new writes no register whatever its outcome, and on a wrong magic it
\* fails with BadMagic(that value) having accessed the magic register only.
C2_NewOnlyObserves ==
    ret.op = "new" =>
        /\ Writes(log) = {}
        /\ hdr.mem["magic"] # <<26998, 29810>> =>
              /\ ret.ty = "BadMagic"
              /\ ret.val = hdr.mem["magic"]
              /\ \A i \in 1..Len(log) : log[i].reg = "magic"

\* C2 witness: construction on a header whose magic is 0xDEADBEEF failed
\* after one read.
C2_Witness ==
    /\ ret.op = "new"
    /\ hdr.mem["magic"] = <<48879, 57005>>
    /\ ret.ty = "BadMagic"
    /\ ret.val = <<48879, 57005>>
    /\ Len(log) = 1

\* C3: on a register block that stores the driver feature word under the
\* written selector, after write_driver_features(f) the words under
\* selectors 0 and 1 recompose, as low | (high << 32), to f; the low half is
\* written first.
C3_DriverFeaturesRoundTrip ==
    (ret.op = "write_driver_features" /\ hdr.kind = "device") =>
        LET f == ret.args[1]
        IN  /\ hdr.drv[0] \o hdr.drv[1] = f
            /\ log = <<Access("w", "driver_features_sel", <<0, 0>>),
                       Access("w", "driver_features", <<f[1], f[2]>>),
                       Access("w", "driver_features_sel", <<1, 0>>),
                       Access("w", "driver_features", <<f[3], f[4]>>)>>

\* C3 witness: a mask with bits in both halves was written to a device.
C3_Witness ==
    /\ ret.op = "write_driver_features"
    /\ hdr.kind = "device"
    /\ ret.args[1] = W64(32768, 1, 65535, 65534)
    /\ hdr.drv[0] = W32(65535, 65534)
    /\ hdr.drv[1] = W32(32768, 1)

\* C4: read_device_features writes 0 to the device feature selector, reads
\* the device feature register, writes 1 to the selector and reads the
\* register again, in that order; the value returned is low | (high << 32)
\* of the two words read, which on a device are the words it exposes under
\* selectors 0 and 1.
C4_ReadDeviceFeaturesSequence ==
    ret.op = "read_device_features" =>
        /\ ~ret.panic
        /\ Len(log) = 4
        /\ log[1] = Access("w", "device_features_sel", <<0, 0>>)
        /\ log[2].k = "r" /\ log[2].reg = "device_features"
        /\ log[3] = Access("w", "device_features_sel", <<1, 0>>)
        /\ log[4].k = "r" /\ log[4].reg = "device_features"
        /\ ret.val = log[2].val \o log[4].val
        /\ hdr.kind = "device" =>
              /\ log[2].val = hdr.feat[0]
              /\ log[4].val = hdr.feat[1]
              /\ ret.val = hdr.feat[0] \o hdr.feat[1]

\* C4 witness: a device whose low word is all ones and whose high word is
\* not zero was read.
C4_Witness ==
    /\ ret.op = "read_device_features"
    /\ hdr.kind = "device"
    /\ hdr.feat[0] = W32(65535, 65535)
    /\ hdr.feat[1] = W32(32768, 1)
    /\ ret.val = W64(32768, 1, 65535, 65535)

\* C5: ack_interrupt reads the interrupt status once; on 0 it returns false
\* and writes nothing; otherwise it returns true and makes one write, of the
\* value read, to the interrupt-ack register.
C5_AckInterrupt ==
    ret.op = "ack_interrupt" =>
        /\ Len(log) >= 1
        /\ log[1].k = "r" /\ log[1].reg = "interrupt_status"
        /\ IF log[1].val = <<0, 0>>
           THEN ~ret.b /\ Len(log) = 1
           ELSE /\ ret.b
                /\ log = <<log[1], Access("w", "interrupt_ack", log[1].val)>>

\* C5 witness: a pending interrupt 3 was acknowledged.
C5_Witness ==
    /\ ret.op = "ack_interrupt"
    /\ ret.b
    /\ log[2] = Access("w", "interrupt_ack", <<3, 0>>)
    /\ hdr.mem["interrupt_ack"] = <<3, 0>>

\* A small u32 as a natural number.
Nat32(x) == x[1] + Base * x[2]

\* a = d + n in 64 bits, without wrapping.
IsSum(a, d, n) == ~AddOverflows(d, U64(n)) /\ a = AddW(d, U64(n))

RoundUpToPage(n) == ((n + PAGE_SIZE - 1) \div PAGE_SIZE) * PAGE_SIZE

\* The three conditions of the Legacy layout check, for a call's arguments.
LegacyLayoutHolds(args) ==
    LET n == Nat32(args[2])
        d == args[3]
    IN  /\ IsSum(args[4], d, DescriptorSize * n)
        /\ IsSum(args[5], d, RoundUpToPage(DescriptorSize * n + U16Size * (n + 3)))
        /\ d[1] % PAGE_SIZE = 0

\* The page number of the descriptor address fits the 32-bit register.
PageNumberFits(args) ==
    LET pn == DivSmall(args[3], PAGE_SIZE)
    IN  pn[3] = 0 /\ pn[4] = 0

\* The call wrote the queue size and the page number of the descriptor table.
LegacyProgrammed(args) ==
    /\ ~ret.panic
    /\ tr.state = "ok"
    /\ \E i \in Writes(log) : log[i] = Access("w", "queue_num", args[2])
    /\ \E i \in Writes(log) :
          /\ log[i].reg = "legacy_queue_pfn"
          /\ Widen(log[i].val) = DivSmall(args[3], PAGE_SIZE)

LegacyAborted == ret.panic /\ tr.state = "panicked" /\ log = <<>>

\* C6 as stated: under Legacy, queue_set fails its layout check unless
\* A = D + entry_size * N, U = D + round_up_to_page(entry_size * N +
\* 2 * (N + 3)) and D is a multiple of the page size; when all three hold it
\* writes D / page_size to the page-number register and N to the queue size.
C6_LegacyLayoutAsStated ==
    (ret.op = "queue_set" /\ tr.version = "Legacy") =>
        IF LegacyLayoutHolds(ret.args)
        THEN LegacyProgrammed(ret.args)
        ELSE LegacyAborted

\* C6, amended: under Legacy, queue_set fails its layout check unless the
\* three conditions hold and D / page_size is below 2^32; when all four hold
\* it writes D / page_size to the page-number register and N to the queue
\* size.
C6_LegacyLayoutCheck ==
    (ret.op = "queue_set" /\ tr.version = "Legacy") =>
        IF LegacyLayoutHolds(ret.args) /\ PageNumberFits(ret.args)
        THEN LegacyProgrammed(ret.args)
        ELSE LegacyAborted

\* C6 witness: a well laid out queue of 256 entries at 2^40 was programmed
\* with page number 2^28.
C6_Witness ==
    /\ ret.op = "queue_set"
    /\ tr.version = "Legacy"
    /\ ret.args[2] = U32(256)
    /\ ret.args[3] = W64(0, 256, 0, 0)
    /\ ~ret.panic
    /\ log[4] = Access("w", "legacy_queue_pfn", W32(4096, 0))

\* C7: under Modern, queue_set succeeds whatever the three addresses, writes
\* the low and the high 32 bits of each to its low and high register and 1
\* to queue-ready; queue_used of that queue, called next, returns true.
C7_ModernQueueSet ==
    /\ (ret.op = "queue_set" /\ tr.version = "Modern") =>
          LET a == ret.args
          IN  /\ ~ret.panic
              /\ tr.state = "ok"
              /\ log = <<Access("w", "queue_sel", a[1]),
                         Access("w", "queue_num", a[2]),
                         Access("w", "queue_desc_low", <<a[3][1], a[3][2]>>),
                         Access("w", "queue_desc_high", <<a[3][3], a[3][4]>>),
                         Access("w", "queue_driver_low", <<a[4][1], a[4][2]>>),
                         Access("w", "queue_driver_high", <<a[4][3], a[4][4]>>),
                         Access("w", "queue_device_low", <<a[5][1], a[5][2]>>),
                         Access("w", "queue_device_high", <<a[5][3], a[5][4]>>),
                         Access("w", "queue_ready", <<1, 0>>)>>
    /\ (/\ ret.op = "queue_used"
        /\ prev.op = "queue_set"
        /\ tr.version = "Modern"
        /\ prev.args[1] = ret.args[1]) => ret.b

\* C7 witness: a Modern queue set up at arbitrary addresses was then
\* reported in use.
C7_Witness ==
    /\ ret.op = "queue_used"
    /\ prev.op = "queue_set"
    /\ tr.version = "Modern"
    /\ prev.args[1] = ret.args[1]
    /\ prev.args[3] = W64(57005, 48879, 4660, 22136)
    /\ ret.b

\* The device ids that name a device type.
KnownIds == (1..13) \cup (16..24)

\* C8: device_type is a total function of the device-id register: each id in
\* 1..13 and 16..24 gives its own device type, no two the same; every other
\* id gives Invalid; the call reads the device-id register only and writes
\* nothing.
C8_DeviceTypeTotal ==
    ret.op = "device_type" =>
        LET v == hdr.mem["device_id"]
        IN  /\ log = <<Access("r", "device_id", v)>>
            /\ IF v[2] = 0 /\ v[1] \in KnownIds
               THEN /\ ret.ty = DeviceTypeOf(v[1])
                    /\ ret.ty \notin {"Invalid", "undefined"}
                    /\ \A w \in KnownIds \ {v[1]} : DeviceTypeOf(w) # ret.ty
               ELSE ret.ty = "Invalid"

\* C8 witness: an id whose low byte is 2 but which is not 2 resolved to
\* Invalid.
C8_Witness ==
    /\ ret.op = "device_type"
    /\ hdr.mem["device_id"] = U32(258)
    /\ ret.ty = "Invalid"

\* C9: set_status(s) writes s to the status register without reading it, and
\* no other call writes that register; so the status register always holds
\* the argument of the latest set_status, the empty set (0) if there was
\* none.
C9_StatusWriteThrough ==
    /\ hdr.mem["status"] = StatusBits(lastStatus)
    /\ lastStatus = {} => hdr.mem["status"] = <<0, 0>>
    /\ lastStatus = {"ACKNOWLEDGE", "DRIVER"} => hdr.mem["status"] = <<3, 0>>
    /\ ret.op = "set_status" =>
          log = <<Access("w", "status", StatusBits(lastStatus))>>
    /\ ret.op # "set_status" =>
          \A i \in Writes(log) : log[i].reg # "status"

\* C9 witness: ACKNOWLEDGE | DRIVER was written and is still in the status
\* register after a later call that writes registers.
C9_Witness ==
    /\ lastStatus = {"ACKNOWLEDGE", "DRIVER"}
    /\ prev.op = "set_status"
    /\ ret.op = "write_driver_features"
    /\ hdr.mem["status"] = <<3, 0>>

\* Whether the register block is the fake header of the end-to-end scenario.
IsScenarioHeader ==
    /\ hdr.kind = "fake"
    /\ hdr.mem["version"] = <<2, 0>>
    /\ hdr.mem["device_id"] = <<2, 0>>
    /\ hdr.mem["vendor_id"] = <<6900, 0>>
    /\ hdr.mem["device_features"] = <<1, 0>>
    /\ hdr.mem["queue_num_max"] = <<256, 0>>

\* C10: the fake header built with version 2, device id 2, vendor id 0x1AF4,
\* device features 1 and queue_num_max 256 constructs as Modern, and the
\* transport reports device type Block, vendor id 0x1AF4, device features 1
\* and a maximum queue size of 256.
C10_FakeHeaderEndToEnd ==
    IsScenarioHeader =>
        /\ ret.op = "new" => ret.b /\ tr.state = "ok" /\ tr.version = "Modern"
        /\ ret.op = "device_type" => ret.ty = "Block"
        /\ ret.op = "vendor_id" => ret.val = <<6900, 0>>
        /\ ret.op = "max_queue_size" => ret.val = <<256, 0>>
        /\ ret.op = "read_device_features" => ret.val = <<1, 0, 0, 0>>

\* The calls that change the device.
MutatingOps ==
    {"write_driver_features", "set_status", "set_guest_page_size", "notify",
     "queue_set", "ack_interrupt"}

\* The number of register writes of the last call.
WriteCount == Cardinality(Writes(log))

\* C11 as stated: each call of write_driver_features, set_status,
\* set_guest_page_size, notify, queue_set and ack_interrupt makes exactly one
\* register write.
C11_OneWritePerCallAsStated ==
    ret.op \in MutatingOps => WriteCount = 1

\* C11, amended: notify and set_status make exactly one register write;
\* set_guest_page_size makes one under Legacy and none under Modern;
\* ack_interrupt makes one when the status it read was not zero and none
\* otherwise; write_driver_features makes four; queue_set makes four under
\* Legacy (none when the layout check fails) and nine under Modern.
C11_WritesPerCall ==
    /\ ret.op \in {"notify", "set_status"} => WriteCount = 1
    /\ ret.op = "set_guest_page_size" =>
          WriteCount = IF tr.version = "Legacy" THEN 1 ELSE 0
    /\ ret.op = "ack_interrupt" => WriteCount = IF ret.b THEN 1 ELSE 0
    /\ ret.op = "write_driver_features" => WriteCount = 4
    /\ ret.op = "queue_set" =>
          WriteCount = IF tr.version = "Modern" THEN 9
                       ELSE IF ret.panic THEN 0 ELSE 4

\* C11 witness: a Modern queue_set made nine register writes.
C11_Witness ==
    /\ ret.op = "queue_set"
    /\ tr.version = "Modern"
    /\ WriteCount = 9

\* The variant of a supported version register value.
VariantOf(v) == IF v = <<1, 0>> THEN "Legacy" ELSE "Modern"

\* The registers the last call accessed.
Accessed == {log[i].reg : i \in 1..Len(log)}

\* C12: the variant is fixed at construction: whatever calls follow, and
\* even when the version register reads another value later, version()
\* returns the variant of the one version read of new, and queue_set,
\* queue_used and set_guest_page_size branch on it without reading the
\* version register.
C12_VariantFixedAtConstruction ==
    /\ ret.op = "new" =>
          Cardinality({i \in 1..Len(log) : log[i].reg = "version"}) <= 1
    /\ tr.state \in {"ok", "panicked"} =>
          /\ tr.version = VariantOf(verAtNew)
          /\ ret.op # "new" => "version" \notin Accessed
          /\ ret.op = "version" => ret.ty = VariantOf(verAtNew) /\ log = <<>>
          /\ ret.op = "set_guest_page_size" =>
                Accessed = IF VariantOf(verAtNew) = "Legacy"
                           THEN {"legacy_guest_page_size"} ELSE {}
          /\ ret.op = "queue_used" =>
                log[2].reg = IF VariantOf(verAtNew) = "Legacy"
                             THEN "legacy_queue_pfn" ELSE "queue_ready"
          /\ (ret.op = "queue_set" /\ ~ret.panic) =>
                log[Len(log)].reg = IF VariantOf(verAtNew) = "Legacy"
                                    THEN "legacy_queue_pfn" ELSE "queue_ready"

\* C12 witness: the transport was constructed as Legacy, the version register
\* now reads 2, and set_guest_page_size still wrote the Legacy register.
C12_Witness ==
    /\ verAtNew = <<1, 0>>
    /\ hdr.mem["version"] = <<2, 0>>
    /\ ret.op = "set_guest_page_size"
    /\ Accessed = {"legacy_guest_page_size"}

\* The registers of the Legacy layout only, and of the Modern layout only.
LegacyOnlyRegs ==
    {"legacy_guest_page_size", "legacy_queue_align", "legacy_queue_pfn"}

ModernOnlyRegs ==
    {"queue_ready", "queue_desc_low", "queue_desc_high", "queue_driver_low",
     "queue_driver_high", "queue_device_low", "queue_device_high"}

\* The registers the last call wrote.
Written == {log[i].reg : i \in Writes(log)}

\* C13: the variant determines the registers written: under Modern no call
\* writes a Legacy-only register and set_guest_page_size writes nothing;
\* under Legacy no call writes a Modern-only register and
\* set_guest_page_size(p) writes p to the guest-page-size register.
C13_VariantRegisterSubset ==
    /\ tr.version = "Modern" =>
          /\ Written \cap LegacyOnlyRegs = {}
          /\ ret.op = "set_guest_page_size" => log = <<>>
          /\ \A r \in LegacyOnlyRegs : hdr.mem[r] = <<0, 0>>
    /\ tr.version = "Legacy" =>
          /\ Written \cap ModernOnlyRegs = {}
          /\ ret.op = "set_guest_page_size" =>
                log = <<Access("w", "legacy_guest_page_size", ret.args[1])>>
          /\ \A r \in ModernOnlyRegs : hdr.mem[r] = <<0, 0>>

\* C13 witness: under Legacy the page size 4096 was written, and a Legacy
\* queue is then set up.
C13_Witness ==
    /\ tr.version = "Legacy"
    /\ prev.op = "set_guest_page_size"
    /\ hdr.mem["legacy_guest_page_size"] = <<4096, 0>>
    /\ ret.op = "queue_set"
    /\ "legacy_queue_pfn" \in Written

\* The last call is a Legacy queue_set that passed its layout check.
LegacySetDone ==
    ret.op = "queue_set" /\ tr.version = "Legacy" /\ ~ret.panic

\* C14: a successful Legacy queue_set(q, N, ...) writes, in this order,
\* q to the queue selector, N to the queue size, the page size to the queue
\* alignment and D / page_size to the page number: the page number, which
\* puts the queue in use, is written last.
C14_LegacyWriteOrder ==
    LegacySetDone =>
        LET a == ret.args
        IN  /\ Len(log) = 4
            /\ log[1] = Access("w", "queue_sel", a[1])
            /\ log[2] = Access("w", "queue_num", a[2])
            /\ log[3] = Access("w", "legacy_queue_align", <<PAGE_SIZE, 0>>)
            /\ log[4].k = "w" /\ log[4].reg = "legacy_queue_pfn"
            /\ Widen(log[4].val) = DivSmall(a[3], PAGE_SIZE)
            /\ hdr.kind = "device" =>
                  LET qs == hdr.q[SelIdx(a[1])]
                  IN  /\ qs["queue_num"] = a[2]
                      /\ qs["legacy_queue_align"] = <<PAGE_SIZE, 0>>
                      /\ qs["legacy_queue_pfn"] = log[4].val

\* C14 witness: queue 1 of a Legacy device was set up with 4 entries at 4096.
C14_Witness ==
    /\ LegacySetDone
    /\ hdr.kind = "device"
    /\ ret.args[1] = <<1, 0>>
    /\ hdr.q[1]["queue_num"] = <<4, 0>>
    /\ hdr.q[1]["legacy_queue_pfn"] = <<1, 0>>

\* C15: in a Modern queue_set(q, ...) the write of 1 to queue-ready is the
\* last write of the call, after the queue selector write for q and after
\* the six address-half writes; so when the device sees ready = 1 for q the
\* three addresses it holds for q are those of the call.
C15_ModernReadyLast ==
    (ret.op = "queue_set" /\ tr.version = "Modern") =>
        LET a == ret.args
            n == Len(log)
        IN  /\ log[n] = Access("w", "queue_ready", <<1, 0>>)
            /\ \A i \in 1..(n - 1) : log[i].reg # "queue_ready"
            /\ \E i \in 1..(n - 1) : log[i] = Access("w", "queue_sel", a[1])
            /\ \A r \in ModernOnlyRegs \ {"queue_ready"} :
                  \E i \in 1..(n - 1) : log[i].k = "w" /\ log[i].reg = r
            /\ \A i \in 1..(n - 1) :
                  log[i].reg \in ModernOnlyRegs =>
                     \E j \in 1..(i - 1) : log[j].reg = "queue_sel"
            /\ hdr.kind = "device" =>
                  LET qs == hdr.q[SelIdx(a[1])]
                  IN  /\ qs["queue_ready"] = <<1, 0>>
                      /\ qs["queue_desc_low"] \o qs["queue_desc_high"] = a[3]
                      /\ qs["queue_driver_low"] \o qs["queue_driver_high"] = a[4]
                      /\ qs["queue_device_low"] \o qs["queue_device_high"] = a[5]

\* C15 witness: queue 1 of a Modern device is ready with the addresses of the
\* call.
C15_Witness ==
    /\ ret.op = "queue_set"
    /\ tr.version = "Modern"
    /\ hdr.kind = "device"
    /\ ret.args[1] = <<1, 0>>
    /\ hdr.q[1]["queue_ready"] = <<1, 0>>
    /\ hdr.q[1]["queue_device_high"] = W32(32768, 0)

\* The queue of the last call, and the register queue_used reads.
UsedQueue == SelIdx(ret.args[1])

UsedReg == IF tr.version = "Legacy" THEN "legacy_queue_pfn" ELSE "queue_ready"

C17_FailedLegacySetTouchesNothing ==
    [][(ret'.op = "queue_set" /\ ret'.panic) =>
          /\ tr.version = "Legacy"
          /\ hdr' = hdr
          /\ log' = <<>>
          /\ tr'.state = "panicked"]_vars

\* C17 witness: queue_set of queue 0 aborted on an unaligned descriptor
\* address and the device still has queue 1 selected, from the call before.
C17_Witness ==
    /\ ret.op = "queue_set"
    /\ ret.panic
    /\ ret.args[1] = <<0, 0>>
    /\ ret.args[3] = <<4104, 0, 0, 0>>
    /\ log = <<>>
    /\ prev.op = "queue_used"
    /\ hdr.mem["queue_sel"] = <<1, 0>>

\* C18: the Legacy page number is never written truncated: for every
\* descriptor address D accepted by Legacy queue_set the 32-bit value written
\* to the page-number register, multiplied by the page size, is D; a
\* page-aligned D with D / page_size >= 2^32 is rejected and nothing is
\* written.
C18_PageNumberNotTruncated ==
    (ret.op = "queue_set" /\ tr.version = "Legacy") =>
        /\ ~ret.panic =>
              \A i \in Writes(log) :
                 log[i].reg = "legacy_queue_pfn" =>
                    /\ MulSmall(Widen(log[i].val), PAGE_SIZE) = ret.args[3]
                    /\ PageNumberFits(ret.args)
        /\ ~ret.panic => \E i \in Writes(log) : log[i].reg = "legacy_queue_pfn"
        /\ (ret.args[3][1] % PAGE_SIZE = 0 /\ ~PageNumberFits(ret.args)) =>
              ret.panic /\ log = <<>>

\* C18 witness: a descriptor address of 2^40 was accepted and then one of
\* 2^44, whose page number is 2^32, was rejected.
C18_Witness ==
    /\ tr.version = "Legacy"
    /\ prev.op = "queue_set"
    /\ prev.args[3] = <<0, 0, 256, 0>>
    /\ ret.op = "queue_set"
    /\ ret.args[3] = <<0, 0, 4096, 0>>
    /\ ret.panic

\* C19: max_queue_size selects no queue: its one access is the read of
\* queue-num-max, so on a device with per-queue maxima it returns the maximum
\* of the queue last written to the queue selector, the queue of the most
\* recent queue_set or queue_used that reached its writes (queue 0 if none);
\* no other operation accesses the queue selector.
C19_MaxQueueSizeOfSelected ==
    /\ ret.op = "max_queue_size" =>
          /\ log = <<Access("r", "queue_num_max", ret.val)>>
          /\ hdr.kind = "device" => ret.val = NumMaxOf[lastQueue]
    /\ ret.op \notin {"queue_set", "queue_used"} => "queue_sel" \notin Accessed
    /\ ret.op \in {"queue_set", "queue_used"} =>
          \A i \in 1..Len(log) :
             log[i].reg = "queue_sel" => log[i] = Access("w", "queue_sel", ret.args[1])
    /\ hdr.mem["queue_sel"] = <<lastQueue, 0>>

\* C19 witness: after queue_used(1) on a device with per-queue maxima,
\* max_queue_size returns the maximum of queue 1.
C19_Witness ==
    /\ ret.op = "max_queue_size"
    /\ hdr.kind = "device"
    /\ prev.op = "queue_used"
    /\ prev.args[1] = <<1, 0>>
    /\ ret.val = <<128, 0>>

====
